---- MODULE Spec2Model ----
(***************************************************************************)
(* Session lifecycle orchestrator of talent-IQ                             *)
(* (backend/src/controllers/sessionController.js): createSession,          *)
(* joinSession and endSession.                                             *)
(*                                                                         *)
(* Shared state: the Session collection (MongoDB through mongoose), the    *)
(* realtime video calls and the chat channels of the Stream provider.      *)
(* Every HTTP request runs its handler as an independent async task; Node  *)
(* runs the code between two awaits atomically, so one action of the model *)
(* is one awaited store or provider operation together with the            *)
(* synchronous code that follows it up to the next await.                  *)
(*                                                                         *)
(* models/Session.js is not among the sources: the record shape and the    *)
(* defaults (status "active", participant unset) follow the data model of  *)
(* the specification.  lib/stream.js as given exports chatClient only;     *)
(* streamClient, which the controller imports from it, is taken to be the  *)
(* Stream video client, as chatClient is the Stream chat client.           *)
(***************************************************************************)
EXTENDS Integers, Sequences, FiniteSets, TLC

\* ---------------------------------------------------------------- bounds
NumUsers == 3
NumSessions == 1
MaxReq == 2
\* largest collection the list queries are run on
MaxStored == 22

\* .limit(20)
PageLimit == 20

Users == 1..NumUsers
SessionIds == 1..NumSessions
Req == 1..MaxReq

NoUser == 0
NoSession == [id |-> 0]

\* an id under which the collection holds no session
UnknownId == 0
RequestIds == SessionIds \cup {UnknownId}

\* req.body fields of createSession; "" stands for an empty or missing field
Problems == {"", "Two Sum"}
Difficulties == {"", "easy"}

VARIABLES
    store,      \* Session collection: session id -> document
    calls,      \* callIds of the realtime video calls that exist
    channels,   \* callIds of the chat channels that exist
    members,    \* callId -> members of the chat channel
    req         \* request -> its handler's position, locals and res.json calls

vars == <<store, calls, channels, members, req>>

\* ------------------------------------------------------------ documents
\* The document Session.create writes: status and participant take the
\* schema defaults.
NewSession(id, problem, difficulty, host, callId, createdAt) ==
    [id |-> id, problem |-> problem, difficulty |-> difficulty, host |-> host,
     participant |-> NoUser, status |-> "active", callId |-> callId,
     createdAt |-> createdAt]

\* a save that would replace the stored document by the in-memory one
SaveOverwritingDocument(stored, doc, path) ==
    doc

\* a join that would assign the caller to host instead of participant
SaveWritingHost(stored, doc, path) ==
    IF path = "participant"
    THEN [stored EXCEPT !.host = doc.participant]
    ELSE [stored EXCEPT !.status = doc.status]

\* session.save() of a document loaded by findById: mongoose writes the
\* modified path only ($set of that path), not the whole document.
Save(stored, doc, path) ==
    IF path = "participant"
    THEN [stored EXCEPT !.participant = doc.participant]
    ELSE [stored EXCEPT !.status = doc.status]

\* ------------------------------------------------------------ responses
Response(status, message, session) ==
    [status |-> status, message |-> message, session |-> session]

InternalServerError == Response(500, "Internal Server Error", NoSession)

IdleRequest ==
    [op |-> "none", caller |-> NoUser, sid |-> 0, problem |-> "",
     difficulty |-> "", pc |-> "idle", doc |-> NoSession,
     responses |-> <<>>, error |-> "none"]

\* catch (error) { console.log(..., error.message); res.status(500).json(..) }
\* responses holds the res.json calls in order; the first one is the response
\* the client receives, a later one throws ERR_HTTP_HEADERS_SENT.
Catch(q, err) ==
    [q EXCEPT !.error = err, !.pc = "done",
              !.responses = Append(@, InternalServerError)]

\* res.status(..).json(..) without leaving the handler
Json(q, resp) ==
    [q EXCEPT !.responses = Append(@, resp)]

\* res.status(..).json(..) as the handler's last statement inside try: when a
\* response was already sent it throws and the catch block runs.
Respond(q, resp) ==
    IF q.responses = <<>>
    THEN [q EXCEPT !.responses = <<resp>>, !.pc = "done"]
    ELSE Catch(Json(q, resp), "ERR_HTTP_HEADERS_SENT")

\* ------------------------------------------------------ handler conditions
\* a validation that would test problem only
MissingProblemOnly(problem, difficulty) ==
    problem = ""

\* !problem || !difficulty
Missing(problem, difficulty) ==
    problem = "" \/ difficulty = ""

\* `session_${Date.now()}_${Math.random().toString(36).substrinng(7)}`:
\* String.prototype has no substrinng, so the call throws a TypeError.
CallIdThrows == TRUE

\* a join without the capacity check
NeverFull(session) ==
    FALSE

\* if (session.participant)
IsFull(session) ==
    session.participant # NoUser

\* session.host.toString() !== userId.toString()
NotHost(session, userId) ==
    session.host # userId

\* an end without the completed check
NeverCompleted(session) ==
    FALSE

\* session.status === "completed"
IsCompleted(session) ==
    session.status = "completed"

\* ------------------------------------------------------------ provider
\* a delete that would leave the resource in place
KeepResource(resources, callId) ==
    resources

\* call.delete({ hard: true }) / channel.delete()
DeleteResource(resources, callId) ==
    resources \ {callId}

\* channel.addMembers([clerkID])
AddMember(m, callId, clerkID) ==
    [m EXCEPT ![callId] = @ \cup {clerkID}]

\* ------------------------------------------------------------ initial state
CallIdOf(id) == id

\* Users are interchangeable (the handlers only compare identities), so the
\* host of each stored session is fixed.
HostOf(id) == ((id - 1) % NumUsers) + 1

\* await Session.findById(id)
findById(id) ==
    IF id \in DOMAIN store THEN store[id] ELSE NoSession

\* The collection is durable: it holds the sessions of earlier requests, each
\* as created (active, no participant) with its call and its channel, the
\* host being the channel's only member.  callId is unique per session; the
\* sessions were created in the order of their ids.
Init ==
    /\ store = [s \in SessionIds |->
                  NewSession(s, "Two Sum", "easy", HostOf(s), CallIdOf(s), s)]
    /\ calls = {CallIdOf(s) : s \in SessionIds}
    /\ channels = calls
    /\ members = [c \in calls |-> {HostOf(c)}]
    /\ req = [r \in Req |-> IdleRequest]

\* requests are numbered in the order in which their handlers start
CanStart(r) ==
    /\ req[r].pc = "idle"
    /\ IF r = 1 THEN TRUE ELSE req[r - 1].pc # "idle"

Invoke(op, caller, sid, problem, difficulty) ==
    [IdleRequest EXCEPT !.op = op, !.caller = caller, !.sid = sid,
                        !.problem = problem, !.difficulty = difficulty]

\* ------------------------------------------------------------ createSession
\* The validation, then the callId expression, which throws: Session.create
\* and the provider calls after it (lines 31-50) are never reached.
createSession(r) ==
    /\ CanStart(r)
    /\ \E userId \in Users, problem \in Problems, difficulty \in Difficulties :
        LET q == Invoke("create", userId, 0, problem, difficulty) IN
        req' = [req EXCEPT ![r] =
                  IF Missing(problem, difficulty)
                  THEN Respond(q, Response(400,
                          "Problem and Difficulty are required", NoSession))
                  ELSE IF CallIdThrows
                  THEN Catch(q, "TypeError")
                  ELSE q]
    /\ UNCHANGED <<store, calls, channels, members>>

\* -------------------------------------------------------------- joinSession
\* await Session.findById(id), the two checks, session.participant = userId
joinSession_findById(r) ==
    /\ CanStart(r)
    /\ \E userId \in Users, id \in RequestIds :
        LET q == Invoke("join", userId, id, "", "")
            session == findById(id) IN
        req' = [req EXCEPT ![r] =
                  IF session = NoSession
                  THEN Respond(q, Response(404, "Session not found", NoSession))
                  ELSE IF IsFull(session)
                  THEN Respond(q, Response(404, "Session is full", NoSession))
                  ELSE [q EXCEPT !.pc = "save",
                                 !.doc = [session EXCEPT !.participant = userId]]]
    /\ UNCHANGED <<store, calls, channels, members>>

\* await session.save()
joinSession_save(r) ==
    /\ req[r].op = "join" /\ req[r].pc = "save"
    /\ \E ok \in BOOLEAN :
        IF ok
        THEN /\ store' = [store EXCEPT ![req[r].sid] =
                            Save(@, req[r].doc, "participant")]
             /\ req' = [req EXCEPT ![r].pc = "addMembers"]
        ELSE /\ store' = store
             /\ req' = [req EXCEPT ![r] = Catch(@, "StoreError")]
    /\ UNCHANGED <<calls, channels, members>>

\* a join that would take the participant back when addMembers rejects
joinSession_addMembers_undoing(r) ==
    /\ req[r].op = "join" /\ req[r].pc = "addMembers"
    /\ \E ok \in BOOLEAN :
        IF ok /\ req[r].doc.callId \in channels
        THEN /\ members' = AddMember(members, req[r].doc.callId, req[r].caller)
             /\ store' = store
             /\ req' = [req EXCEPT ![r] =
                          Respond(@, Response(200, "", req[r].doc))]
        ELSE /\ members' = members
             /\ store' = [store EXCEPT ![req[r].sid].participant = NoUser]
             /\ req' = [req EXCEPT ![r] = Catch(@, "ProviderError")]
    /\ UNCHANGED <<calls, channels>>

\* await channel.addMembers([clerkID]); res.status(200).json({ session })
joinSession_addMembers(r) ==
    /\ req[r].op = "join" /\ req[r].pc = "addMembers"
    /\ \E ok \in BOOLEAN :
        IF ok /\ req[r].doc.callId \in channels
        THEN /\ members' = AddMember(members, req[r].doc.callId, req[r].caller)
             /\ req' = [req EXCEPT ![r] =
                          Respond(@, Response(200, "", req[r].doc))]
        ELSE /\ members' = members
             /\ req' = [req EXCEPT ![r] = Catch(@, "ProviderError")]
    /\ UNCHANGED <<store, calls, channels>>

\* --------------------------------------------------------------- endSession
\* await Session.findById(id), the host check (which sends 403 and goes on),
\* the completed check, session.status = "completed"
endSession_findById(r) ==
    /\ CanStart(r)
    /\ \E userId \in Users, id \in RequestIds :
        LET q == Invoke("end", userId, id, "", "")
            session == findById(id)
            q1 == IF session # NoSession /\ NotHost(session, userId)
                  THEN Json(q, Response(403,
                          "Only the host can end the Session", NoSession))
                  ELSE q IN
        req' = [req EXCEPT ![r] =
                  IF session = NoSession
                  THEN Respond(q, Response(404, "Session not found", NoSession))
                  ELSE IF IsCompleted(session)
                  THEN Respond(q1, Response(400,
                          "Session is already completed", NoSession))
                  ELSE [q1 EXCEPT !.pc = "save",
                                  !.doc = [session EXCEPT !.status = "completed"]]]
    /\ UNCHANGED <<store, calls, channels, members>>

\* await session.save()
endSession_save(r) ==
    /\ req[r].op = "end" /\ req[r].pc = "save"
    /\ \E ok \in BOOLEAN :
        IF ok
        THEN /\ store' = [store EXCEPT ![req[r].sid] =
                            Save(@, req[r].doc, "status")]
             /\ req' = [req EXCEPT ![r].pc = "deleteCall"]
        ELSE /\ store' = store
             /\ req' = [req EXCEPT ![r] = Catch(@, "StoreError")]
    /\ UNCHANGED <<calls, channels, members>>

\* await call.delete({ hard: true })
endSession_deleteCall(r) ==
    /\ req[r].op = "end" /\ req[r].pc = "deleteCall"
    /\ \E ok \in BOOLEAN :
        IF ok /\ req[r].doc.callId \in calls
        THEN /\ calls' = DeleteResource(calls, req[r].doc.callId)
             /\ req' = [req EXCEPT ![r].pc = "deleteChannel"]
        ELSE /\ calls' = calls
             /\ req' = [req EXCEPT ![r] = Catch(@, "ProviderError")]
    /\ UNCHANGED <<store, channels, members>>

\* await channel.delete(); res.status(200).json({ session, message })
endSession_deleteChannel(r) ==
    /\ req[r].op = "end" /\ req[r].pc = "deleteChannel"
    /\ \E ok \in BOOLEAN :
        IF ok /\ req[r].doc.callId \in channels
        THEN /\ channels' = DeleteResource(channels, req[r].doc.callId)
             /\ members' = [members EXCEPT ![req[r].doc.callId] = {}]
             /\ req' = [req EXCEPT ![r] =
                          Respond(@, Response(200,
                              "Session ended successfully", req[r].doc))]
        ELSE /\ channels' = channels
             /\ members' = members
             /\ req' = [req EXCEPT ![r] = Catch(@, "ProviderError")]
    /\ UNCHANGED <<store, calls>>

Next ==
    \E r \in Req :
        \/ createSession(r)
        \/ joinSession_findById(r)
        \/ joinSession_save(r)
        \/ joinSession_addMembers(r)
        \/ endSession_findById(r)
        \/ endSession_save(r)
        \/ endSession_deleteCall(r)
        \/ endSession_deleteChannel(r)

Spec == Init /\ [][Next]_vars

\* ------------------------------------------------------------ list queries
\* a filter that would test the status only
MatchesCompletedOnly(session, userId) ==
    session.status = "completed"

\* { status: "active" }
MatchesActive(session) ==
    session.status = "active"

\* { status: "completed", $or: [{ host: userId }, { participant: userId }] }
MatchesMine(session, userId) ==
    /\ session.status = "completed"
    /\ session.host = userId \/ session.participant = userId

\* a sort that would put the oldest first
RECURSIVE SortByCreatedAtAsc(_)
SortByCreatedAtAsc(sessions) ==
    IF sessions = {} THEN <<>>
    ELSE LET oldest == CHOOSE x \in sessions :
                           \A y \in sessions : x.createdAt <= y.createdAt
         IN <<oldest>> \o SortByCreatedAtAsc(sessions \ {oldest})

\* .sort({ createdAt: -1 }): newest first; documents with equal createdAt
\* come in some order
RECURSIVE SortByCreatedAtDesc(_)
SortByCreatedAtDesc(sessions) ==
    IF sessions = {} THEN <<>>
    ELSE LET newest == CHOOSE x \in sessions :
                           \A y \in sessions : y.createdAt <= x.createdAt
         IN <<newest>> \o SortByCreatedAtDesc(sessions \ {newest})

\* .limit(n)
Limit(sorted, n) ==
    SubSeq(sorted, 1, IF Len(sorted) < n THEN Len(sorted) ELSE n)

\* await Session.find(..).sort(..).limit(20); res.status(200).json({ sessions })
getActiveSessions(r) ==
    /\ CanStart(r)
    /\ LET q == Invoke("getActiveSessions", NoUser, UnknownId, "", "")
           found == {store[s] : s \in {t \in DOMAIN store : MatchesActive(store[t])}}
           sessions == Limit(SortByCreatedAtDesc(found), PageLimit) IN
       req' = [req EXCEPT ![r] = Respond(q, Response(200, "", sessions))]
    /\ UNCHANGED <<store, calls, channels, members>>

getMyRecentSessions(r) ==
    /\ CanStart(r)
    /\ \E userId \in Users :
        LET q == Invoke("getMyRecentSessions", userId, UnknownId, "", "")
            found == {store[s] : s \in {t \in DOMAIN store :
                                         MatchesMine(store[t], userId)}}
            sessions == Limit(SortByCreatedAtDesc(found), PageLimit) IN
        req' = [req EXCEPT ![r] = Respond(q, Response(200, "", sessions))]
    /\ UNCHANGED <<store, calls, channels, members>>

\* The collections the list queries are run on: n sessions whose status,
\* host, participant and creation time follow one of a few patterns each.
ListSizes == (0..2) \cup ((MaxStored - 2)..MaxStored)
StatusPatterns == 0..3
ParticipantPatterns == 0..2
CreationOrders == {"ascending", "descending", "mixed", "tied"}

StatusOf(i, p) ==
    IF p = 0 THEN "active"
    ELSE IF i % p = 0 THEN "completed" ELSE "active"

ListHostOf(i, sameHost) ==
    IF sameHost THEN 1 ELSE HostOf(i)

ParticipantOf(i, p) ==
    IF p = 0 THEN NoUser
    ELSE IF p = 1 THEN (i % NumUsers) + 1
    ELSE NumUsers

CreatedAtOf(i, n, order) ==
    IF order = "ascending" THEN i
    ELSE IF order = "descending" THEN n + 1 - i
    ELSE IF order = "mixed" THEN (i * 7) % (MaxStored + 1)
    ELSE (i + 1) \div 2

StoredSession(i, n, sp, sameHost, pp, order) ==
    [NewSession(i, "Two Sum", "easy", ListHostOf(i, sameHost), CallIdOf(i),
                CreatedAtOf(i, n, order))
        EXCEPT !.status = StatusOf(i, sp),
               !.participant = ParticipantOf(i, pp)]

InitList ==
    /\ \E n \in ListSizes, sp \in StatusPatterns, sameHost \in BOOLEAN,
          pp \in ParticipantPatterns, order \in CreationOrders :
        store = [i \in 1..n |-> StoredSession(i, n, sp, sameHost, pp, order)]
    /\ calls = {store[i].callId : i \in {j \in DOMAIN store :
                                          store[j].status = "active"}}
    /\ channels = calls
    /\ members = [c \in calls |->
                    {store[c].host, store[c].participant} \ {NoUser}]
    /\ req = [r \in Req |-> IdleRequest]

NextList ==
    \E r \in Req :
        \/ getActiveSessions(r)
        \/ getMyRecentSessions(r)

SpecList == InitList /\ [][NextList]_vars

\* ------------------------------------------------------------ vocabulary
Done(r) == req[r].pc = "done"
Idle(r) == req[r].pc = "idle"
Delivered(r) == Head(req[r].responses)
NoRequestInFlight == \A r \in Req : Idle(r) \/ Done(r)

\* the findById of join request r saw the session with participant unset
JoinSawUnset(r) == req[r].op = "join" /\ req[r].doc # NoSession

\* the findById of end request r saw the session with status active
EndSawActive(r) == req[r].op = "end" /\ req[r].doc # NoSession

NotFound == Response(404, "Session not found", NoSession)
SessionIsFull == Response(404, "Session is full", NoSession)
Forbidden == Response(403, "Only the host can end the Session", NoSession)
AlreadyCompleted == Response(400, "Session is already completed", NoSession)
ValidationFailed == Response(400, "Problem and Difficulty are required", NoSession)

\* ------------------------------------------------------------------ C1
\* C1: of N >= 2 join requests of distinct users other than the host that run
\* concurrently on one session whose participant is unset (each read it
\* unset) and that meet no store or provider failure, exactly one is answered
\* 200 and the others are answered "Session is full".
C1_ExactlyOneConcurrentJoinSucceeds ==
    \A s \in SessionIds :
        LET J == {r \in Req : JoinSawUnset(r) /\ req[r].sid = s} IN
        (/\ Cardinality(J) >= 2
         /\ \A r \in J : Done(r) /\ req[r].error = "none"
         /\ \A r \in J : req[r].caller # store[s].host
         /\ \A r1, r2 \in J : r1 # r2 => req[r1].caller # req[r2].caller)
        => /\ Cardinality({r \in J : Delivered(r).status = 200}) = 1
           /\ \A r \in J : Delivered(r).status # 200 => Delivered(r) = SessionIsFull

\* ------------------------------------------------------------------ C2
\* C2: an endSession request of a caller who is not the session's host is
\* answered 403 and none of its steps changes the stored status.
C2_NonHostEndLeavesStatus ==
    [][\A r \in Req :
        (/\ req'[r] # req[r]
         /\ req'[r].op = "end"
         /\ req'[r].sid \in SessionIds
         /\ store[req'[r].sid].host # req'[r].caller)
        => /\ Head(req'[r].responses) = Forbidden
           /\ store'[req'[r].sid].status = store[req'[r].sid].status]_vars

\* ------------------------------------------------------------------ C3
\* C3: no step of an endSession request of a non-host caller deletes the
\* session's realtime call or its chat channel.
C3_NonHostEndDeletesNothing ==
    [][\A r \in Req :
        (/\ req'[r] # req[r]
         /\ req'[r].op = "end"
         /\ req'[r].sid \in SessionIds
         /\ store[req'[r].sid].host # req'[r].caller)
        => calls' = calls /\ channels' = channels]_vars

C4_JoinResult ==
    \A r \in Req :
        (JoinSawUnset(r) /\ Done(r) /\ req[r].error = "none")
        => /\ req[r].responses = <<Response(200, "", req[r].doc)>>
           /\ req[r].doc.participant = req[r].caller
           /\ store[req[r].sid].participant # NoUser

C4_JoinWrite ==
    \A r \in Req :
        (req[r].op = "join" /\ req[r].pc = "save" /\ req'[r].pc = "addMembers")
        => store'[req[r].sid].participant = req[r].caller

C4_LaterJoin ==
    \A r \in Req :
        (/\ req[r].pc = "idle" /\ req'[r].op = "join"
         /\ req'[r].sid \in SessionIds
         /\ store[req'[r].sid].participant # NoUser)
        => /\ req'[r].pc = "done"
           /\ req'[r].responses = <<SessionIsFull>>
           /\ store' = store

C5_ValidCreateReturns201 ==
    \A r \in Req :
        (/\ req[r].op = "create" /\ Done(r)
         /\ req[r].problem # "" /\ req[r].difficulty # "")
        => /\ Delivered(r).status = 201
           /\ Delivered(r).session # NoSession
           /\ Delivered(r).session.status = "active"
           /\ Delivered(r).session.participant = NoUser
           /\ Delivered(r).session.host = req[r].caller

\* ------------------------------------------------------------------ C6
C6_Rejected ==
    \A r \in Req :
        (/\ req[r].op = "create" /\ Done(r)
         /\ (req[r].problem = "" \/ req[r].difficulty = ""))
        => req[r].responses = <<ValidationFailed>>

C6_NoEffect ==
    \A r \in Req :
        (/\ req[r].pc = "idle" /\ req'[r].op = "create"
         /\ (req'[r].problem = "" \/ req'[r].difficulty = ""))
        => /\ req'[r].pc = "done"
           /\ store' = store /\ calls' = calls /\ channels' = channels

\* C6: a createSession request with an empty or missing problem or difficulty
\* is answered 400 (validation) and creates no session record, no realtime
\* call and no chat channel.
C6_InvalidCreateRejected ==
    []C6_Rejected /\ [][C6_NoEffect]_vars

C6_Witness ==
    \E r \in Req :
        /\ req[r].op = "create" /\ Done(r)
        /\ req[r].problem # "" /\ req[r].difficulty = ""
        /\ Delivered(r).status = 400

C7_HostEndResult ==
    \A r \in Req :
        (/\ EndSawActive(r) /\ Done(r) /\ req[r].caller = req[r].doc.host
         /\ req[r].error = "none")
        => /\ req[r].responses =
                <<Response(200, "Session ended successfully", req[r].doc)>>
           /\ req[r].doc.status = "completed"
           /\ store[req[r].sid].status = "completed"

C7_LaterEnd ==
    \A r \in Req :
        (/\ req[r].pc = "idle" /\ req'[r].op = "end"
         /\ req'[r].sid \in SessionIds
         /\ store[req'[r].sid].status = "completed"
         /\ store[req'[r].sid].host = req'[r].caller)
        => /\ req'[r].pc = "done"
           /\ req'[r].responses = <<AlreadyCompleted>>
           /\ store' = store /\ calls' = calls /\ channels' = channels

C8_StatusMonotonicNoDelete ==
    [][\A s \in SessionIds :
        s \in DOMAIN store
        => /\ s \in DOMAIN store' /\ store'[s].id = s
           /\ store[s].status = "completed" => store'[s].status = "completed"]_vars

\* a join wrote its participant into a session that an end has completed
C8_Witness ==
    \E r \in Req :
        /\ JoinSawUnset(r) /\ req[r].pc = "addMembers"
        /\ store[req[r].sid].status = "completed"
        /\ store[req[r].sid].participant = req[r].caller

\* ------------------------------------------------------------------ C9
\* C9: every stored session with a participant has a participant different
\* from its host.
C9_ParticipantIsNotHost ==
    \A s \in SessionIds :
        store[s].participant # NoUser
        => store[s].participant # store[s].host

TeardownFailed(s) ==
    \E r \in Req :
        req[r].op = "end" /\ req[r].sid = s /\ req[r].error = "ProviderError"

C12_PartialTeardownDistinguishable ==
    /\ \A r \in Req :
        (req[r].op = "end" /\ Done(r) /\ req[r].error = "ProviderError")
        => store[req[r].sid].status = "completed"
    /\ \A r1, r2 \in Req :
        (/\ req[r1].op = "end" /\ Done(r1) /\ req[r1].error = "ProviderError"
         /\ req[r2].op = "end" /\ Done(r2) /\ req[r2].error = "StoreError")
        => Delivered(r1) # Delivered(r2)

\* ------------------------------------------------------------------ C13
\* C13: when joinSession has persisted participant = caller and addMembers
\* then fails, the failing step leaves the stored session as the write left
\* it: the participant stays set and no request that ended this way leaves a
\* session without participant.
C13_ProviderFailureKeepsParticipant ==
    /\ [][\A r \in Req :
            (/\ req[r].op = "join" /\ req[r].pc = "addMembers"
             /\ req'[r].pc = "done" /\ req'[r].error = "ProviderError")
            => /\ store' = store
               /\ store'[req[r].sid].participant # NoUser]_vars
    /\ [](\A r \in Req :
            (req[r].op = "join" /\ Done(r) /\ req[r].error = "ProviderError")
            => store[req[r].sid].participant # NoUser)

C13_Witness ==
    \E r \in Req :
        /\ req[r].op = "join" /\ Done(r) /\ req[r].error = "ProviderError"
        /\ Delivered(r) = InternalServerError
        /\ store[req[r].sid].participant = req[r].caller
        /\ req[r].caller \notin members[store[req[r].sid].callId]

\* ------------------------------------------------------------------ C14
\* the sessions a finished list query returned
Listed(r) == Delivered(r).session

\* C14: getActiveSessions returns only stored sessions whose status is
\* active, and getMyRecentSessions returns only stored sessions whose status
\* is completed and whose host or participant is the caller.
C14_ListsReturnOnlyMatching ==
    \A r \in Req :
        /\ (Done(r) /\ req[r].op = "getActiveSessions")
           => \A i \in 1..Len(Listed(r)) :
                /\ Listed(r)[i] = store[Listed(r)[i].id]
                /\ Listed(r)[i].status = "active"
        /\ (Done(r) /\ req[r].op = "getMyRecentSessions")
           => \A i \in 1..Len(Listed(r)) :
                /\ Listed(r)[i] = store[Listed(r)[i].id]
                /\ Listed(r)[i].status = "completed"
                /\ \/ Listed(r)[i].host = req[r].caller
                   \/ Listed(r)[i].participant = req[r].caller

\* both queries returned sessions and left out sessions that do not match
C14_Witness ==
    \E r1, r2 \in Req :
        /\ Done(r1) /\ req[r1].op = "getActiveSessions"
        /\ Len(Listed(r1)) > 0
        /\ \E s \in DOMAIN store : store[s].status = "completed"
        /\ Done(r2) /\ req[r2].op = "getMyRecentSessions"
        /\ Len(Listed(r2)) > 0
        /\ \E s \in DOMAIN store :
            /\ store[s].status = "completed"
            /\ store[s].host # req[r2].caller
            /\ store[s].participant # req[r2].caller

\* ------------------------------------------------------------------ C15
\* the stored sessions that match the filter of the query of request r
Matching(r) ==
    IF req[r].op = "getActiveSessions"
    THEN {s \in DOMAIN store : store[s].status = "active"}
    ELSE {s \in DOMAIN store :
            /\ store[s].status = "completed"
            /\ \/ store[s].host = req[r].caller
               \/ store[s].participant = req[r].caller}

\* C15: each list query returns at most 20 sessions (all the matching ones
\* when there are at most 20), ordered by creation time descending, and no
\* matching session it leaves out is newer than a returned one.
C15_ListsNewestFirstAtMost20 ==
    \A r \in Req :
        (Done(r) /\ req[r].op \in {"getActiveSessions", "getMyRecentSessions"})
        => /\ Len(Listed(r)) <= 20
           /\ Len(Listed(r)) = IF Cardinality(Matching(r)) < 20
                               THEN Cardinality(Matching(r)) ELSE 20
           /\ \A i, j \in 1..Len(Listed(r)) :
                i < j => Listed(r)[i].createdAt >= Listed(r)[j].createdAt
           /\ \A s \in Matching(r) :
                (\A i \in 1..Len(Listed(r)) : Listed(r)[i].id # s)
                => \A i \in 1..Len(Listed(r)) :
                     store[s].createdAt <= Listed(r)[i].createdAt

\* a query cut a result of more than 20 matching sessions created out of
\* id order
C15_Witness ==
    \E r \in Req :
        /\ Done(r) /\ req[r].op = "getMyRecentSessions"
        /\ Cardinality(Matching(r)) > 20
        /\ Len(Listed(r)) = 20
        /\ \E i \in 1..19 : Listed(r)[i].id < Listed(r)[i + 1].id
        /\ \E i \in 1..19 : Listed(r)[i].id > Listed(r)[i + 1].id

C17_TornDown ==
    \A e, j \in Req :
        (/\ EndSawActive(e) /\ Done(e) /\ req[e].caller = req[e].doc.host
         /\ req[e].error = "none"
         /\ JoinSawUnset(j) /\ Done(j) /\ req[j].doc.status = "active"
         /\ req[j].sid = req[e].sid /\ req[j].caller # req[e].caller)
        => /\ store[req[e].sid].status = "completed"
           /\ store[req[e].sid].callId \notin calls
           /\ store[req[e].sid].callId \notin channels

C17_JoinWriteKeepsStatus ==
    \A j \in Req :
        (req[j].op = "join" /\ req[j].pc = "save" /\ req'[j] # req[j])
        => store'[req[j].sid].status = store[req[j].sid].status

C18_CreationFieldsImmutable ==
    [][\A s \in SessionIds :
        /\ store'[s].host = store[s].host
        /\ store'[s].callId = store[s].callId
        /\ store'[s].problem = store[s].problem
        /\ store'[s].difficulty = store[s].difficulty]_vars

\* a join and an end have both written the session
C18_Witness ==
    \E s \in SessionIds :
        /\ store[s].participant # NoUser
        /\ store[s].status = "completed"
        /\ store[s].host = HostOf(s)
        /\ store[s].callId = CallIdOf(s)

\* ------------------------------------------------------------------ C19
\* C19: every finished createSession, joinSession and endSession invocation
\* has made exactly one res.json call.
C19_ExactlyOneResponse ==
    \A r \in Req :
        (Done(r) /\ req[r].op \in {"create", "join", "end"})
        => Len(req[r].responses) = 1

\* ------------------------------------------------------------------ C20
\* C20: a joinSession that found the session completed does not write the
\* participant and is not answered 200.
C20_NoJoinOnCompleted ==
    /\ [][\A r \in Req :
            (/\ req[r].op = "join" /\ req[r].pc = "save" /\ req'[r] # req[r]
             /\ req[r].doc.status = "completed")
            => store'[req[r].sid].participant = store[req[r].sid].participant]_vars
    /\ [](\A r \in Req :
            (/\ req[r].op = "join" /\ Done(r) /\ req[r].sid \in SessionIds
             /\ req[r].doc # NoSession /\ req[r].doc.status = "completed")
            => Delivered(r).status # 200)

====
